---- MODULE Spec2Model ----
(***************************************************************************)
(* Test-network bootstrap of crates/test-utils/src/network.rs.             *)
(*                                                                         *)
(* One bootstrap call is modelled statement by statement: the swarm is     *)
(* built and launched, the four configuration artifacts are written, and   *)
(* (for the RPC entry points) the JSON-RPC front-end is started, the       *)
(* wallet configuration is re-pointed at it and the clients are built.     *)
(* Every `?` of the source is a point where the call may fail; a failing   *)
(* call unwinds, dropping the locals it owns in reverse declaration order, *)
(* and a returned value is dropped by its owner field by field.            *)
(***************************************************************************)
EXTENDS Integers, Sequences, FiniteSets, TLC

(* ----------------------- constants and bounds ------------------------ *)

NUM_VALIDAOTR == 4

MaxFullnodes == 1

MaxAccounts == 2

NumKeys == 3

NumPorts == 2

MaxCalls == 2

PairAccounts == 1

Keys == 1..NumKeys

Ports == 1..NumPorts

(* ------------------------------ options ------------------------------- *)

\* Option<T> is a sequence of length 0 (None) or 1 (Some).
None == <<>>

Some(v) == <<v>>

IsSome(o) == Len(o) = 1

Unwrap(o) == o[1]

SeqToSet(s) == {s[i] : i \in 1..Len(s)}

InjectiveSeqs(S, n) ==
  {s \in [1..n -> S] : \A i, j \in 1..n : i # j => s[i] # s[j]}

(* ------------------------- keys and addresses ------------------------- *)

\* KeypairTraits::public: the public half of a keypair.
Public(key) == 10 * key

\* From<&PublicKey> for SuiAddress: the address derived from a public key.
AddressOf(pub) == pub + 1

(* ------------------------------- paths -------------------------------- *)

SUI_NETWORK_CONFIG == "network.yaml"

SUI_CLIENT_CONFIG == "client.yaml"

SUI_KEYSTORE_FILENAME == "sui.keystore"

SUI_GATEWAY_CONFIG == "gateway.yaml"

network_path == SUI_NETWORK_CONFIG

wallet_path == SUI_CLIENT_CONFIG

keystore_path == SUI_KEYSTORE_FILENAME

db_folder_path == "client_db"

gateway_path == SUI_GATEWAY_CONFIG

Artifacts == {network_path, keystore_path, gateway_path, wallet_path}

TmpOf(path) ==
  CASE path = network_path -> "network.yaml.tmp"
    [] path = keystore_path -> "sui.keystore.tmp"
    [] path = gateway_path -> "gateway.yaml.tmp"
    [] path = wallet_path -> "client.yaml.tmp"

Paths == Artifacts \cup {TmpOf(p) : p \in Artifacts} \cup {db_folder_path}

(* --------------------------- file contents ---------------------------- *)

Absent == [kind |-> "absent"]

Torn == [kind |-> "torn"]

Dir == [kind |-> "dir"]

File(text) == [kind |-> "file", text |-> text]

Exists(d, path) == d[path].kind # "absent"

IsFile(d, path) == d[path].kind = "file"

EmptyDisk == [p \in Paths |-> Absent]

(* ------------------------ configuration values ------------------------ *)

\* GatewayConfig { db_folder_path, validator_set, ..Default::default() }
GatewayConfig(db, validators) ==
  [db_folder_path |-> db, validator_set |-> validators]

\* GatewayType::Embedded(config)
Embedded(config) == [type |-> "Embedded", config |-> Some(config), url |-> None]

\* GatewayType::RPC(url)
RPC(url) == [type |-> "RPC", config |-> None, url |-> Some(url)]

\* KeystoreType::File(path)
KeystoreFile(path) == [type |-> "File", path |-> path]

\* SuiClientConfig { accounts, keystore, gateway, active_address }
SuiClientConfig(accts, ks, gw, active) ==
  [accounts |-> accts, keystore |-> ks, gateway |-> gw, active_address |-> active]

\* An active address taken from the end of the accounts.
LastOf(accts) == IF Len(accts) = 0 THEN None ELSE Some(accts[Len(accts)])

\* accounts.get(0).copied()
First(accts) == IF Len(accts) = 0 THEN None ELSE Some(accts[1])

\* A wallet configuration whose keystore reference names another path than
\* the one the keystore was saved to.
InitialWalletKeystoreElsewhere(accts, validators) ==
  SuiClientConfig(accts, KeystoreFile(wallet_path),
                  Embedded(GatewayConfig(db_folder_path, validators)), First(accts))

\* A wallet configuration whose embedded gateway has a store of its own.
InitialWalletOwnStore(accts, validators) ==
  SuiClientConfig(accts, KeystoreFile(keystore_path),
                  Embedded(GatewayConfig("wallet_db", validators)), First(accts))

\* The wallet configuration start_test_network_with_fullnodes saves.
InitialWallet(accts, validators) ==
  SuiClientConfig(accts, KeystoreFile(keystore_path),
                  Embedded(GatewayConfig(db_folder_path, validators)), First(accts))

\* A URL with another scheme than the server speaks.
FormatUrlHttps(addr) == [scheme |-> "https", host |-> addr.ip, port |-> addr.port]

\* format!("http://{}", server_addr)
FormatUrl(addr) == [scheme |-> "http", host |-> addr.ip, port |-> addr.port]

\* A rewire that builds the configuration anew and leaves the active
\* address unset.
RewireFromDefault(conf, url) ==
  SuiClientConfig(conf.accounts, conf.keystore, RPC(url), None)

\* A rewire that assigns the wrong variant.
RewireToEmbedded(conf, url) ==
  [conf EXCEPT !.gateway = Embedded(GatewayConfig("rpc_db", <<>>))]

\* wallet_conf.gateway = GatewayType::RPC(rpc_url.clone())
Rewire(conf, url) == [conf EXCEPT !.gateway = RPC(url)]

(* --------------------------- serialization ---------------------------- *)

\* Config::save writes the value's fields, in declaration order, as named
\* entries; PersistedConfig::read looks each field up by its name.
Field(text, name) ==
  LET i == CHOOSE j \in 1..Len(text) : text[j][1] = name IN text[i][2]

SerializeWallet(conf) ==
  << <<"accounts", conf.accounts>>, <<"keystore", conf.keystore>>,
     <<"gateway", conf.gateway>>, <<"active_address", conf.active_address>> >>

ParseWallet(text) ==
  SuiClientConfig(Field(text, "accounts"), Field(text, "keystore"),
                  Field(text, "gateway"), Field(text, "active_address"))

SerializeGateway(conf) ==
  << <<"db_folder_path", conf.db_folder_path>>,
     <<"validator_set", conf.validator_set>> >>

ParseGateway(text) ==
  GatewayConfig(Field(text, "db_folder_path"), Field(text, "validator_set"))

SerializeNetwork(conf) ==
  << <<"validator_set", conf.validator_set>>,
     <<"account_keys", conf.account_keys>> >>

\* SuiKeystore::save writes the stored keypairs; the addresses are derived
\* again from the keypairs when the file is loaded.
SerializeKeystore(keys) == {keys[a] : a \in DOMAIN keys}

ParseKeystore(text) ==
  [a \in {AddressOf(Public(k)) : k \in text} |->
     CHOOSE k \in text : AddressOf(Public(k)) = a]

(* --------------------------- the file system -------------------------- *)

\* A save that writes straight over `path`.
WriteTargetInPlace(path) == path

\* Where the bytes of a save go before they are published under `path`:
\* a temporary file beside it, renamed over `path` once complete.
WriteTarget(path) == TmpOf(path)

\* The write has begun: the target holds an incomplete file.
BeginWrite(d, path) == [d EXCEPT ![WriteTarget(path)] = Torn]

\* The write is complete and the rename publishes it under `path`.
FinishWrite(d, path, text) ==
  [p \in Paths |->
     IF p = path THEN File(text)
     ELSE IF p = WriteTarget(path) THEN Absent
     ELSE d[p]]

(* ------------------------------ the swarm ----------------------------- *)

\* A builder that is not told the fullnode count.
BuilderNoFullnodes(genesis, n) ==
  [committee_size |-> NUM_VALIDAOTR, fullnode_count |-> 0,
   initial_accounts_config |-> genesis]

\* Swarm::builder().committee_size(NUM_VALIDAOTR).with_fullnode_count(n)
\*   [.initial_accounts_config(genesis_config)]
Builder(genesis, n) ==
  [committee_size |-> NUM_VALIDAOTR, fullnode_count |-> n,
   initial_accounts_config |-> genesis]

\* The number of accounts a genesis configuration provisions keys for: a
\* given configuration names it; the default one provisions at least one.
AccountCounts(genesis) ==
  IF IsSome(genesis) THEN {Unwrap(genesis)} ELSE 1..MaxAccounts

\* SwarmBuilder::build: committee_size validators, fullnode_count
\* fullnodes, the account keys of the genesis, a working directory.
BuildSwarm(b, keys, temporary) ==
  [validators |-> 1..b.committee_size,
   fullnodes |-> (b.committee_size + 1)..(b.committee_size + b.fullnode_count),
   validator_set |-> [i \in 1..b.committee_size |-> i],
   account_keys |-> keys,
   temporary |-> temporary]

NodesOf(sw) == sw.validators \cup sw.fullnodes

\* swarm.config(): the network configuration of the swarm.
ConfigOf(sw) ==
  [validator_set |-> sw.validator_set, account_keys |-> sw.account_keys]

(* ------------------------------ keystore ------------------------------ *)

\* SuiKeystore::default(): no keys, no path.
DefaultKeystore == [keys |-> [a \in {} |-> 0], path |-> None]

\* keystore.add_key(address, keypair): BTreeMap::insert.
AddKey(ks, address, key) ==
  [ks EXCEPT !.keys = [a \in DOMAIN ks.keys \cup {address} |->
                         IF a = address THEN key ELSE ks.keys[a]]]

RECURSIVE AddKeysFrom(_, _, _)
AddKeysFrom(ks, keys, i) ==
  IF i > Len(keys) THEN ks
  ELSE AddKeysFrom(AddKey(ks, AddressOf(Public(keys[i])), keys[i]), keys, i + 1)

\* A loop that misses the first account key.
AddKeysSkipFirst(ks, keys) == AddKeysFrom(ks, keys, 2)

\* for key in &swarm.config().account_keys { keystore.add_key(..)?; }
AddKeys(ks, keys) == AddKeysFrom(ks, keys, 1)

\* account_keys.iter().map(|key| key.public().into()).collect()
AccountsOf(keys) == [i \in 1..Len(keys) |-> AddressOf(Public(keys[i]))]

(* ------------------------------ RPC server ---------------------------- *)

\* A module that lacks the wallet-sync surface.
ApiSurfacesWithoutSync ==
  <<"RpcGatewayImpl", "GatewayReadApiImpl", "TransactionBuilderImpl">>

\* The API surfaces merged into the module, in the order of the source.
ApiSurfaces ==
  <<"RpcGatewayImpl", "GatewayReadApiImpl", "TransactionBuilderImpl",
    "GatewayWalletSyncApiImpl">>

NoServer == [state |-> "none", local_addr |-> None]

\* The gateway instances there can be: the one create_client makes, and
\* room for one more per surface.
GatewayIds == 1..(1 + Len(ApiSurfaces))

\* create_client: a new embedded gateway of the given configuration.
NewGateway(config) == [id |-> 1, config |-> config]

\* A clone that copies the gateway: the i-th surface gets one of its own.
CloneCopies(c, i) == [c EXCEPT !.id = c.id + i]

\* client.clone(): GatewayClient is an Arc, the clone is the same instance.
CloneClient(c, i) == c

\* What a request through a surface observes: the state of the gateway
\* instance behind it.
Observed(surface, heap) == heap[surface.client.id]

(* ------------------------ networks side by side ----------------------- *)

\* The networks started concurrently by one test process.
Nets == {"net_a", "net_b"}

\* The temporary directories the host can hand out as working directories.
Dirs == {"tmp_a", "tmp_b"}

NoDir == "none"

Free == "free"

\* A network whose call has not begun.
IdleNet == [pc |-> "build", dir |-> NoDir, keys |-> <<>>, addr |-> None,
            error |-> None]

\* working_dir.join(name): a path inside a working directory.
Join(dir, name) == <<dir, name>>

\* The validator set of a network: its own validators.
ValidatorSetOf(n) == [i \in 1..NUM_VALIDAOTR |-> <<n, i>>]

\* A server address with a fixed port.
BindAddressFixed == [ip |-> "127.0.0.1", port |-> 1]

\* "127.0.0.1:0": port 0 asks the host for any free port.
BindAddress == [ip |-> "127.0.0.1", port |-> 0]

\* The wallet configuration of l.86-96 with its paths inside `dir`.
WalletIn(dir, accts, validators) ==
  LET w == InitialWallet(accts, validators)
      g == Unwrap(w.gateway.config)
  IN [w EXCEPT
        !.keystore = KeystoreFile(Join(dir, w.keystore.path)),
        !.gateway = Embedded(GatewayConfig(Join(dir, g.db_folder_path),
                                           g.validator_set))]

\* The gateway configuration of l.78-83 with its path inside `dir`.
GatewayIn(dir, validators) ==
  GatewayConfig(Join(dir, db_folder_path), validators)

\* The statements of start_test_network_with_fullnodes that save a file,
\* in order, and the statement after them.
SaveStages == <<"save_network", "save_keystore", "save_gateway", "save_wallet">>

StageIndex(stage) == CHOOSE i \in 1..Len(SaveStages) : SaveStages[i] = stage

AfterSave(stage) ==
  IF StageIndex(stage) = Len(SaveStages) THEN "bind"
  ELSE SaveStages[StageIndex(stage) + 1]

\* The path a saving statement writes, relative to the working directory.
PathOf(stage) ==
  CASE stage = "save_network" -> network_path
    [] stage = "save_keystore" -> keystore_path
    [] stage = "save_gateway" -> gateway_path
    [] stage = "save_wallet" -> wallet_path

\* What a saving statement writes for network n working in `dir`.
TextOf(stage, n, dir, keys) ==
  CASE stage = "save_network" ->
         SerializeNetwork([validator_set |-> ValidatorSetOf(n),
                           account_keys |-> keys])
    [] stage = "save_keystore" ->
         SerializeKeystore(AddKeys(DefaultKeystore, keys).keys)
    [] stage = "save_gateway" ->
         SerializeGateway(GatewayIn(dir, ValidatorSetOf(n)))
    [] stage = "save_wallet" ->
         SerializeWallet(WalletIn(dir, AccountsOf(keys), ValidatorSetOf(n)))

(* ------------------------------- state -------------------------------- *)

VARIABLES
  entry,            \* the entry point that was called
  genesis_config,   \* Option<GenesisConfig>: the number of accounts it names
  fullnode_count,
  pc,               \* the statement the call is at
  io,               \* "idle", or "writing" inside a save
  result,           \* what the call returned, once it has
  log,              \* the stages the call has run, in order
  dropq,            \* the owned values still to drop, in drop order
  swarm,            \* Option<Swarm>
  nodes,            \* node -> "idle" | "running" | "failed" | "stopped"
  disk,             \* the working directory: path -> content
  accounts,         \* start_test_network_with_fullnodes: accounts
  keystore,         \* start_test_network_with_fullnodes: keystore
  server,           \* the HTTP server: its state and its bound address
  server_addr,      \* Option<SocketAddr>: addr / server_addr
  client,           \* start_rpc_gateway: client
  module,           \* start_rpc_gateway: module, the merged surfaces
  gateway_state,    \* gateway instance -> the requests it has applied
  wallet_conf,      \* start_rpc_test_network_with_fullnode: wallet_conf
  rpc_url,          \* start_rpc_test_network_with_fullnode: rpc_url
  net_accounts,     \* start_rpc_test_network_with_fullnode: accounts
  http_client,
  gateway_client,
  context,          \* setup_network_and_wallet: Option<WalletContext>
  address,          \* setup_network_and_wallet: Option<SuiAddress>
  syncs,            \* the addresses the wallet state was synchronized for
  returned,         \* Option: the Swarm or TestNetwork handed to the caller
  nets,             \* two networks side by side: network -> its call's state
  sockets,          \* the host's ports: port -> the network listening, or free
  fs                \* the host's directories: directory -> its contents

inputs == <<entry, genesis_config, fullnode_count>>

swarm_locals == <<accounts, keystore>>

gateway_locals == <<server, server_addr, client, module>>

rpc_locals == <<wallet_conf, rpc_url, net_accounts, http_client, gateway_client>>

wallet_locals == <<context, address, syncs>>

pair_vars == <<nets, sockets, fs>>

vars ==
  <<entry, genesis_config, fullnode_count, pc, io, result, log, dropq, swarm,
    nodes, disk, accounts, keystore, server, server_addr, client, module,
    gateway_state, wallet_conf, rpc_url, net_accounts, http_client, gateway_client, context,
    address, syncs, returned, nets, sockets, fs>>

EntryPoints ==
  {"start_test_network", "start_test_network_with_fullnodes",
   "setup_network_and_wallet",
   "start_rpc_test_network", "start_rpc_test_network_with_fullnode"}

\* The entry points that go on to start the RPC front-end.
IsRpc(e) == e \in {"start_rpc_test_network", "start_rpc_test_network_with_fullnode"}

\* setup_network_and_wallet, which goes on to build and sync a wallet.
IsWallet(e) == e = "setup_network_and_wallet"

Pending == [tag |-> "Pending", stage |-> ""]

Ok == [tag |-> "Ok", stage |-> ""]

Err(stage) == [tag |-> "Err", stage |-> stage]

Init ==
  /\ entry \in EntryPoints
  \* setup_network_and_wallet calls start_test_network(None)
  /\ genesis_config \in
       IF IsWallet(entry) THEN {None}
       ELSE {None} \cup {Some(n) : n \in 0..MaxAccounts}
  \* start_test_network and start_rpc_test_network pass fullnode_count 0
  /\ fullnode_count \in
       IF entry \in {"start_test_network", "start_rpc_test_network",
                     "setup_network_and_wallet"}
       THEN {0} ELSE 0..MaxFullnodes
  /\ pc = "build"
  /\ io = "idle"
  /\ result = Pending
  /\ log = <<>>
  /\ dropq = <<>>
  /\ swarm = None
  /\ nodes = [n \in {} |-> "idle"]
  /\ disk = EmptyDisk
  /\ accounts = <<>>
  /\ keystore = DefaultKeystore
  /\ server = NoServer
  /\ server_addr = None
  /\ client = None
  /\ module = {}
  /\ gateway_state = [g \in GatewayIds |-> 0]
  /\ wallet_conf = None
  /\ rpc_url = None
  /\ net_accounts = <<>>
  /\ http_client = None
  /\ gateway_client = None
  /\ context = None
  /\ address = None
  /\ syncs = <<>>
  /\ returned = None
  /\ nets = [n \in Nets |-> IdleNet]
  /\ sockets = [p \in Ports |-> Free]
  /\ fs = [d \in Dirs |-> EmptyDisk]

(* ------------------------- failure and unwinding ---------------------- *)

Listening == server.state \in {"bound", "serving"}

\* An unwinding that forgets the swarm (as after mem::forget).
UnwindOrderLeaky ==
  IF Listening THEN <<"rpc_server">> ELSE <<>>

\* What a failing call still owns, in the order it drops it: locals are
\* dropped in reverse order of declaration, so the server (declared after
\* `network`) goes first.
UnwindOrder ==
  (IF Listening THEN <<"rpc_server">> ELSE <<>>)
    \o (IF IsSome(swarm) THEN <<"network">> ELSE <<>>)

\* The fields of TestNetwork that own a running service, in declaration
\* order, which is the order a dropped struct drops its fields in.
HandleDropOrder ==
  IF IsRpc(entry) THEN <<"network", "rpc_server">> ELSE <<"network">>

Running(stage) == pc = stage /\ result = Pending

\* An error that is swallowed: the stage is run again.
RaiseAndGoOn(stage) ==
  /\ pc' = stage
  /\ UNCHANGED <<result, dropq>>

\* `?` on an Err: the call stops here and returns the error.
Raise(stage) ==
  /\ result' = Err(stage)
  /\ pc' = "unwind"
  /\ dropq' = UnwindOrder

Fail(stage) ==
  /\ Running(stage)
  /\ io = "idle"
  /\ Raise(stage)
  /\ log' = Append(log, stage)
  /\ UNCHANGED <<inputs, pair_vars, gateway_state, wallet_locals, io, swarm, nodes, disk, swarm_locals, gateway_locals,
                 rpc_locals, returned>>

(* ----------------- start_test_network_with_fullnodes ------------------ *)

\* let mut swarm = builder.build();
Build ==
  /\ Running("build")
  /\ \E n \in AccountCounts(genesis_config), temporary \in BOOLEAN :
       \E keys \in InjectiveSeqs(Keys, n) :
         LET sw == BuildSwarm(Builder(genesis_config, fullnode_count), keys, temporary)
         IN /\ swarm' = Some(sw)
            /\ nodes' = [x \in NodesOf(sw) |-> "idle"]
  /\ pc' = "launch"
  /\ log' = Append(log, "build")
  /\ UNCHANGED <<inputs, pair_vars, gateway_state, wallet_locals, io, result, dropq, disk, swarm_locals, gateway_locals,
                 rpc_locals, returned>>

\* swarm.launch(): every node is started, concurrently with the others.
NodeStart ==
  /\ Running("launch")
  /\ \E n \in DOMAIN nodes :
       /\ nodes[n] = "idle"
       /\ nodes' = [nodes EXCEPT ![n] = "running"]
  /\ UNCHANGED <<inputs, pair_vars, gateway_state, wallet_locals, pc, io, result, log, dropq, swarm, disk, swarm_locals,
                 gateway_locals, rpc_locals, returned>>

\* A node fails to start: launch returns the error, and `?` returns it.
NodeFail ==
  /\ Running("launch")
  /\ \E n \in DOMAIN nodes :
       /\ nodes[n] = "idle"
       /\ nodes' = [nodes EXCEPT ![n] = "failed"]
  /\ Raise("launch")
  /\ log' = Append(log, "launch")
  /\ UNCHANGED <<inputs, pair_vars, gateway_state, wallet_locals, io, swarm, disk, swarm_locals, gateway_locals,
                 rpc_locals, returned>>

AllRunning == \A n \in DOMAIN nodes : nodes[n] = "running"

\* The launch is not awaited: the call goes on while nodes are starting.
LaunchDoneNotAwaited ==
  /\ Running("launch")
  /\ accounts' = AccountsOf(ConfigOf(Unwrap(swarm)).account_keys)
  /\ pc' = "save_network"
  /\ log' = Append(log, "launch")
  /\ UNCHANGED <<inputs, pair_vars, gateway_state, wallet_locals, io, result, dropq, swarm, nodes, disk, keystore,
                 gateway_locals, rpc_locals, returned>>

\* swarm.launch().await? returns Ok once every node is up; the locals up
\* to gateway_path are computed.
LaunchDone ==
  /\ Running("launch")
  /\ AllRunning
  /\ accounts' = AccountsOf(ConfigOf(Unwrap(swarm)).account_keys)
  /\ pc' = "save_network"
  /\ log' = Append(log, "launch")
  /\ UNCHANGED <<inputs, pair_vars, gateway_state, wallet_locals, io, result, dropq, swarm, nodes, disk, keystore,
                 gateway_locals, rpc_locals, returned>>

\* The first half of a save: the bytes start to go to the write target.
BeginSave(stage, path) ==
  /\ Running(stage)
  /\ io = "idle"
  /\ io' = "writing"
  /\ disk' = BeginWrite(disk, path)
  /\ log' = Append(log, stage)
  /\ UNCHANGED <<inputs, pair_vars, gateway_state, wallet_locals, pc, result, dropq, swarm, nodes, returned>>

\* The second half: the complete file is published under its path.
FinishSave(stage, path, text, next) ==
  /\ Running(stage)
  /\ io = "writing"
  /\ io' = "idle"
  /\ disk' = FinishWrite(disk, path, text)
  /\ pc' = next
  /\ UNCHANGED <<inputs, pair_vars, gateway_state, wallet_locals, result, log, dropq, swarm, nodes, swarm_locals,
                 gateway_locals, rpc_locals, returned>>

\* swarm.config().save(&network_path)?;
SaveNetworkConfig ==
  \/ /\ BeginSave("save_network", network_path)
     /\ UNCHANGED <<swarm_locals, gateway_locals, rpc_locals>>
  \/ FinishSave("save_network", network_path,
                SerializeNetwork(ConfigOf(Unwrap(swarm))), "add_keys")
  \/ Fail("save_network")

\* let mut keystore = SuiKeystore::default(); for key in .. { add_key(..)?; }
AddAccountKeys ==
  \/ /\ Running("add_keys")
     /\ keystore' = AddKeys(DefaultKeystore, ConfigOf(Unwrap(swarm)).account_keys)
     /\ pc' = "save_keystore"
     /\ log' = Append(log, "add_keys")
     /\ UNCHANGED <<inputs, pair_vars, gateway_state, wallet_locals, io, result, dropq, swarm, nodes, disk, accounts,
                    gateway_locals, rpc_locals, returned>>
  \/ Fail("add_keys")

\* keystore.set_path(&keystore_path); keystore.save()?;
SaveKeystore ==
  \/ /\ BeginSave("save_keystore", keystore_path)
     /\ keystore' = [keystore EXCEPT !.path = Some(keystore_path)]
     /\ UNCHANGED <<accounts, gateway_locals, rpc_locals>>
  \/ /\ IsSome(keystore.path)
     /\ FinishSave("save_keystore", Unwrap(keystore.path),
                   SerializeKeystore(keystore.keys), "save_gateway")
  \/ Fail("save_keystore")

\* let validators = swarm.config().validator_set().to_owned();
Validators == ConfigOf(Unwrap(swarm)).validator_set

\* GatewayConfig { db_folder_path, validator_set, .. }.save(gateway_path)?;
SaveGatewayConfig ==
  \/ /\ BeginSave("save_gateway", gateway_path)
     /\ UNCHANGED <<swarm_locals, gateway_locals, rpc_locals>>
  \/ FinishSave("save_gateway", gateway_path,
                SerializeGateway(GatewayConfig(db_folder_path, Validators)),
                "save_wallet")
  \/ Fail("save_gateway")

\* SuiClientConfig { accounts, keystore, gateway, active_address }
\*   .save(&wallet_path)?;
SaveWalletConfig ==
  \/ /\ BeginSave("save_wallet", wallet_path)
     /\ UNCHANGED <<swarm_locals, gateway_locals, rpc_locals>>
  \/ FinishSave("save_wallet", wallet_path,
                SerializeWallet(InitialWallet(accounts, Validators)),
                "return_swarm")
  \/ Fail("save_wallet")

\* Ok(swarm): to the caller, or to `network` of
\* start_rpc_test_network_with_fullnode or `swarm` of
\* setup_network_and_wallet, which go on.
ReturnSwarm ==
  /\ Running("return_swarm")
  /\ \/ /\ ~IsRpc(entry)
        /\ ~IsWallet(entry)
        /\ result' = Ok
        /\ returned' = Some([network |-> Unwrap(swarm)])
        /\ pc' = "returned"
     \/ /\ IsRpc(entry)
        /\ pc' = "bind"
        /\ UNCHANGED <<result, returned>>
     \/ /\ IsWallet(entry)
        /\ pc' = "wallet_context"
        /\ UNCHANGED <<result, returned>>
  /\ UNCHANGED <<inputs, pair_vars, gateway_state, wallet_locals, io, log, dropq, swarm, nodes, disk, swarm_locals,
                 gateway_locals, rpc_locals>>

(* ----------------------- setup_network_and_wallet --------------------- *)

\* An `address` taken from the end of the accounts.
LastAccount(config) == config.accounts[Len(config.accounts)]

\* context.config.accounts.first().cloned().unwrap()
FirstAccount(config) == config.accounts[1]

\* WalletContext::new(&wallet_conf)?: the wallet configuration is read
\* back, its keystore loaded and its embedded gateway opened.
LoadContext(d) ==
  LET config == ParseWallet(d[wallet_path].text)
  IN [config |-> config,
      keystore |-> ParseKeystore(d[config.keystore.path].text)]

\* let mut context = WalletContext::new(&wallet_conf)?;
\* let address = context.config.accounts.first().cloned().unwrap();
\* (the default genesis provisions accounts, so unwrap finds one)
NewWalletContext ==
  \/ /\ Running("wallet_context")
     /\ IsFile(disk, wallet_path)
     /\ LET ctx == LoadContext(disk)
        IN /\ Len(ctx.config.accounts) > 0
           /\ context' = Some(ctx)
           /\ address' = Some(FirstAccount(ctx.config))
           /\ disk' = [disk EXCEPT
                         ![Unwrap(ctx.config.gateway.config).db_folder_path] = Dir]
     /\ pc' = "sync"
     /\ log' = Append(log, "wallet_context")
     /\ UNCHANGED <<inputs, pair_vars, gateway_state, io, result, dropq, swarm, nodes, swarm_locals,
                    gateway_locals, rpc_locals, syncs, returned>>
  \/ Fail("wallet_context")

\* SuiClientCommands::SyncClientState { address: Some(address) }
\*   .execute(&mut context).await?;
SyncClientState ==
  \/ /\ Running("sync")
     /\ syncs' = Append(syncs, Unwrap(address))
     /\ pc' = "return_wallet"
     /\ log' = Append(log, "sync")
     /\ UNCHANGED <<inputs, pair_vars, gateway_state, io, result, dropq, swarm, nodes, disk, swarm_locals,
                    gateway_locals, rpc_locals, context, address, returned>>
  \/ Fail("sync")

\* Ok((swarm, context, address))
ReturnWallet ==
  /\ Running("return_wallet")
  /\ returned' = Some([network |-> Unwrap(swarm),
                       context |-> Unwrap(context),
                       address |-> Unwrap(address)])
  /\ result' = Ok
  /\ pc' = "returned"
  /\ UNCHANGED <<inputs, pair_vars, gateway_state, wallet_locals, io, log, dropq, swarm, nodes, disk,
                 swarm_locals, gateway_locals, rpc_locals>>

(* -------------------------- start_rpc_gateway ------------------------- *)

\* HttpServerBuilder::default().build("127.0.0.1:0").await?: the OS
\* assigns the port.
Bind ==
  \/ /\ Running("bind")
     /\ \E port \in Ports :
          server' = [state |-> "bound",
                     local_addr |-> Some([ip |-> "127.0.0.1", port |-> port])]
     /\ pc' = "local_addr"
     /\ log' = Append(log, "bind")
     /\ UNCHANGED <<inputs, pair_vars, gateway_state, wallet_locals, io, result, dropq, swarm, nodes, disk, swarm_locals,
                    server_addr, client, module, rpc_locals, returned>>
  \/ Fail("bind")

\* let addr = server.local_addr()?;
LocalAddr ==
  \/ /\ Running("local_addr")
     /\ server_addr' = server.local_addr
     /\ pc' = "create_client"
     /\ log' = Append(log, "local_addr")
     /\ UNCHANGED <<inputs, pair_vars, gateway_state, wallet_locals, io, result, dropq, swarm, nodes, disk, swarm_locals,
                    server, client, module, rpc_locals, returned>>
  \/ Fail("local_addr")

\* let client = create_client(config_path, &registry)?: the embedded
\* gateway of the persisted gateway configuration, which opens its store.
CreateClient ==
  \/ /\ Running("create_client")
     /\ IsFile(disk, gateway_path)
     /\ LET config == ParseGateway(disk[gateway_path].text)
        IN /\ client' = Some(NewGateway(config))
           /\ disk' = [disk EXCEPT ![config.db_folder_path] = Dir]
     /\ pc' = "merge"
     /\ log' = Append(log, "create_client")
     /\ UNCHANGED <<inputs, pair_vars, gateway_state, wallet_locals, io, result, dropq, swarm, nodes, swarm_locals,
                    server, server_addr, module, rpc_locals, returned>>
  \/ Fail("create_client")

\* The surface the next module.merge(..)? registers.
NextSurface == ApiSurfaces[Cardinality(module) + 1]

\* module.merge(<surface>::new(client.clone()).into_rpc())?;  (four times)
Merge ==
  /\ Running("merge")
  /\ \/ /\ module' = module \cup
             {[api |-> NextSurface,
               client |-> CloneClient(Unwrap(client), Cardinality(module) + 1)]}
        /\ pc' = IF Cardinality(module) + 1 = Len(ApiSurfaces) THEN "start" ELSE "merge"
        /\ UNCHANGED <<result, dropq>>
     \/ /\ Raise(NextSurface)
        /\ UNCHANGED module
  /\ log' = Append(log, NextSurface)
  /\ UNCHANGED <<inputs, pair_vars, gateway_state, wallet_locals, io, swarm, nodes, disk, swarm_locals, server,
                 server_addr, client, rpc_locals, returned>>

\* let handle = server.start(module)?;
StartServer ==
  \/ /\ Running("start")
     /\ server' = [server EXCEPT !.state = "serving"]
     /\ pc' = "read_wallet"
     /\ log' = Append(log, "start")
     /\ UNCHANGED <<inputs, pair_vars, gateway_state, wallet_locals, io, result, dropq, swarm, nodes, disk, swarm_locals,
                    server_addr, client, module, rpc_locals, returned>>
  \/ Fail("start")

\* A request served through one of the surfaces of the running server
\* changes the state of the gateway behind that surface.
RpcCall ==
  /\ server.state = "serving"
  /\ \E surface \in module :
       /\ gateway_state[surface.client.id] < MaxCalls
       /\ gateway_state' =
            [gateway_state EXCEPT ![surface.client.id] = @ + 1]
  /\ UNCHANGED <<inputs, pair_vars, wallet_locals, pc, io, result, log, dropq,
                 swarm, nodes, disk, swarm_locals, server, server_addr, client,
                 module,
                 rpc_locals, returned>>

(* --------------- start_rpc_test_network_with_fullnode ----------------- *)

\* let mut wallet_conf: SuiClientConfig = PersistedConfig::read(..)?;
ReadWallet ==
  \/ /\ Running("read_wallet")
     /\ IsFile(disk, wallet_path)
     /\ wallet_conf' = Some(ParseWallet(disk[wallet_path].text))
     /\ pc' = "save_rewired"
     /\ log' = Append(log, "read_wallet")
     /\ UNCHANGED <<inputs, pair_vars, gateway_state, wallet_locals, io, result, dropq, swarm, nodes, disk, swarm_locals,
                    gateway_locals, rpc_url, net_accounts, http_client,
                    gateway_client, returned>>
  \/ Fail("read_wallet")

\* let rpc_url = format!(..); let accounts = wallet_conf.accounts.clone();
\* wallet_conf.gateway = GatewayType::RPC(rpc_url.clone());
\* wallet_conf.persisted(..).save()?;
SaveRewired ==
  \/ /\ BeginSave("save_rewired", wallet_path)
     /\ rpc_url' = Some(FormatUrl(Unwrap(server_addr)))
     /\ net_accounts' = Unwrap(wallet_conf).accounts
     /\ wallet_conf' = Some(Rewire(Unwrap(wallet_conf), FormatUrl(Unwrap(server_addr))))
     /\ UNCHANGED <<swarm_locals, gateway_locals, http_client, gateway_client>>
  \/ FinishSave("save_rewired", wallet_path,
                SerializeWallet(Unwrap(wallet_conf)), "http_client")
  \/ Fail("save_rewired")

\* let http_client = HttpClientBuilder::default().build(rpc_url.clone())?;
BuildHttpClient ==
  \/ /\ Running("http_client")
     /\ http_client' = Some([target |-> Unwrap(rpc_url)])
     /\ pc' = "gateway_client"
     /\ log' = Append(log, "http_client")
     /\ UNCHANGED <<inputs, pair_vars, gateway_state, wallet_locals, io, result, dropq, swarm, nodes, disk, swarm_locals,
                    gateway_locals, wallet_conf, rpc_url, net_accounts,
                    gateway_client, returned>>
  \/ Fail("http_client")

\* let gateway_client = RpcGatewayClient::new(rpc_url.clone())?;
BuildGatewayClient ==
  \/ /\ Running("gateway_client")
     /\ gateway_client' = Some([target |-> Unwrap(rpc_url)])
     /\ pc' = "return_network"
     /\ log' = Append(log, "gateway_client")
     /\ UNCHANGED <<inputs, pair_vars, gateway_state, wallet_locals, io, result, dropq, swarm, nodes, disk, swarm_locals,
                    gateway_locals, wallet_conf, rpc_url, net_accounts,
                    http_client, returned>>
  \/ Fail("gateway_client")

\* Ok(TestNetwork { network, _rpc_server, accounts, http_client,
\*                  gateway_client, rpc_url })
ReturnTestNetwork ==
  /\ Running("return_network")
  /\ returned' = Some([network |-> Unwrap(swarm),
                       _rpc_server |-> server.local_addr,
                       accounts |-> net_accounts,
                       http_client |-> Unwrap(http_client),
                       gateway_client |-> Unwrap(gateway_client),
                       rpc_url |-> Unwrap(rpc_url)])
  /\ result' = Ok
  /\ pc' = "returned"
  /\ UNCHANGED <<inputs, pair_vars, gateway_state, wallet_locals, io, log, dropq, swarm, nodes, disk, swarm_locals,
                 gateway_locals, rpc_locals>>

(* -------------------------------- drops ------------------------------- *)

\* The caller lets go of the Swarm or TestNetwork it was handed.
DropHandle ==
  /\ pc = "returned"
  /\ result = Ok
  /\ pc' = "dropping"
  /\ dropq' = HandleDropOrder
  /\ UNCHANGED <<inputs, pair_vars, gateway_state, wallet_locals, io, result, log, swarm, nodes, disk, swarm_locals,
                 gateway_locals, rpc_locals, returned>>

\* Where the call is once the last owned value has been dropped.
AfterDrops == IF pc = "unwind" THEN "returned" ELSE "dropped"

Dropping(what) ==
  /\ pc \in {"unwind", "dropping"}
  /\ dropq # <<>>
  /\ Head(dropq) = what
  /\ dropq' = Tail(dropq)
  /\ pc' = IF Tail(dropq) = <<>> THEN AfterDrops ELSE pc

\* Drop of the server (or of its handle): the listener is released.
DropRpcServer ==
  /\ Dropping("rpc_server")
  /\ server' = [server EXCEPT !.state = "released"]
  /\ UNCHANGED <<inputs, pair_vars, gateway_state, wallet_locals, io, result, log, swarm, nodes, disk, swarm_locals,
                 server_addr, client, module, rpc_locals, returned>>

\* Drop of the Swarm: every node is stopped, and a temporary working
\* directory is removed with everything in it.
DropSwarm ==
  /\ Dropping("network")
  /\ nodes' = [n \in DOMAIN nodes |-> "stopped"]
  /\ disk' = IF Unwrap(swarm).temporary THEN EmptyDisk ELSE disk
  /\ UNCHANGED <<inputs, pair_vars, gateway_state, wallet_locals, io, result, log, swarm, swarm_locals, gateway_locals,
                 rpc_locals, returned>>

(* --------------------------- specification ---------------------------- *)

Next ==
  \/ Build
  \/ NodeStart
  \/ NodeFail
  \/ LaunchDone
  \/ SaveNetworkConfig
  \/ AddAccountKeys
  \/ SaveKeystore
  \/ SaveGatewayConfig
  \/ SaveWalletConfig
  \/ ReturnSwarm
  \/ NewWalletContext
  \/ SyncClientState
  \/ ReturnWallet
  \/ Bind
  \/ LocalAddr
  \/ CreateClient
  \/ Merge
  \/ StartServer
  \/ RpcCall
  \/ ReadWallet
  \/ SaveRewired
  \/ BuildHttpClient
  \/ BuildGatewayClient
  \/ ReturnTestNetwork
  \/ DropHandle
  \/ DropRpcServer
  \/ DropSwarm

Spec == Init /\ [][Next]_vars

(* ------------- two calls of start_rpc_test_network at once ------------ *)

\* The state of one call of the single-network model.
call_vars ==
  <<inputs, pc, io, result, log, dropq, swarm, nodes, disk, swarm_locals,
    gateway_locals, gateway_state, rpc_locals, wallet_locals, returned>>

PairRunning(n, stage) == nets[n].pc = stage

\* The working directories already handed out.
DirsInUse == {nets[n].dir : n \in Nets}

FreePorts == {p \in Ports : sockets[p] = Free}

\* Closing the sockets of network n.
Release(table, n) == [p \in Ports |-> IF table[p] = n THEN Free ELSE table[p]]

\* The bind of the host: port 0 is answered with any free port, a fixed
\* port is granted only if no one listens on it.
Grantable(requested) ==
  IF requested.port = 0 THEN FreePorts ELSE {requested.port} \cap FreePorts

\* builder.build() and swarm.launch(): a swarm of its own account keys in a
\* fresh temporary working directory.
PairBuild(n) ==
  /\ PairRunning(n, "build")
  /\ \E dir \in Dirs \ DirsInUse, keys \in InjectiveSeqs(Keys, PairAccounts) :
       nets' = [nets EXCEPT ![n].pc = "save_network", ![n].dir = dir,
                            ![n].keys = keys]
  /\ UNCHANGED <<call_vars, sockets, fs>>

\* One of the four saves of l.67-96, into the network's working directory.
PairSave(n) ==
  /\ \E i \in 1..Len(SaveStages) : PairRunning(n, SaveStages[i])
  /\ LET stage == nets[n].pc
         dir == nets[n].dir
     IN /\ fs' = [fs EXCEPT ![dir] =
                    FinishWrite(@, PathOf(stage),
                                TextOf(stage, n, dir, nets[n].keys))]
        /\ nets' = [nets EXCEPT ![n].pc = AfterSave(stage)]
  /\ UNCHANGED <<call_vars, sockets>>

\* HttpServerBuilder::default().build("127.0.0.1:0").await?
PairBind(n) ==
  /\ PairRunning(n, "bind")
  /\ IF Grantable(BindAddress) = {}
     THEN /\ nets' = [nets EXCEPT ![n].pc = "failed",
                                  ![n].error = Some("address unavailable")]
          /\ UNCHANGED sockets
     ELSE \E port \in Grantable(BindAddress) :
            /\ sockets' = [sockets EXCEPT ![port] = n]
            /\ nets' = [nets EXCEPT
                          ![n].pc = "start",
                          ![n].addr = Some([ip |-> BindAddress.ip, port |-> port])]
  /\ UNCHANGED <<call_vars, fs>>

\* l.124-133: local_addr, create_client over the directory's gateway
\* configuration, the merges, server.start.
PairStart(n) ==
  /\ PairRunning(n, "start")
  /\ IsFile(fs[nets[n].dir], gateway_path)
  /\ nets' = [nets EXCEPT ![n].pc = "rewire"]
  /\ UNCHANGED <<call_vars, sockets, fs>>

\* l.151-158: the wallet configuration of the directory is read, rewired
\* to the url of the network's server and saved back.
PairRewire(n) ==
  /\ PairRunning(n, "rewire")
  /\ LET dir == nets[n].dir
         conf == ParseWallet(fs[dir][wallet_path].text)
         url == FormatUrl(Unwrap(nets[n].addr))
     IN fs' = [fs EXCEPT ![dir] =
                 FinishWrite(@, wallet_path, SerializeWallet(Rewire(conf, url)))]
  /\ nets' = [nets EXCEPT ![n].pc = "returned"]
  /\ UNCHANGED <<call_vars, sockets>>

\* The TestNetwork is dropped: its server stops listening.
PairDrop(n) ==
  /\ PairRunning(n, "returned")
  /\ nets' = [nets EXCEPT ![n].pc = "dropped"]
  /\ sockets' = Release(sockets, n)
  /\ UNCHANGED <<call_vars, fs>>

\* A statement of the call fails on its own and `?` unwinds the call.
PairFail(n) ==
  /\ nets[n].pc \in SeqToSet(SaveStages) \cup {"start", "rewire"}
  /\ nets' = [nets EXCEPT ![n].pc = "failed", ![n].error = Some("io")]
  /\ sockets' = Release(sockets, n)
  /\ UNCHANGED <<call_vars, fs>>

PairNext ==
  \E n \in Nets :
    \/ PairBuild(n)
    \/ PairSave(n)
    \/ PairBind(n)
    \/ PairStart(n)
    \/ PairRewire(n)
    \/ PairDrop(n)
    \/ PairFail(n)

PairInit ==
  /\ Init
  /\ entry = "start_rpc_test_network"
  /\ genesis_config = None

SpecPair == PairInit /\ [][PairNext]_vars

(* ------------------------ observations of a state --------------------- *)

LaunchComplete == IsSome(swarm) /\ AllRunning

SwarmTornDown == IsSome(swarm) /\ \A n \in DOMAIN nodes : nodes[n] = "stopped"

NoNodeRunning == \A n \in DOMAIN nodes : nodes[n] # "running"

\* The wallet configuration a reader of the working directory finds.
PersistedWallet(d) == ParseWallet(d[wallet_path].text)

WalletIsRpc(d) == IsFile(d, wallet_path) /\ PersistedWallet(d).gateway.type = "RPC"

\* "http://" followed by the address the server is bound to.
BoundUrl ==
  [scheme |-> "http", host |-> Unwrap(server.local_addr).ip,
   port |-> Unwrap(server.local_addr).port]

ReturnedOk == pc = "returned" /\ result = Ok

ReturnedErr == pc = "returned" /\ result.tag = "Err"

(* -------------------------------- C1 ---------------------------------- *)

\* C1: in a run of start_rpc_test_network_with_fullnode a configuration
\* artifact is written only once the launch is complete (all nodes
\* running); the server is bound only once all four artifacts are on disk;
\* the wallet configuration is rewired (in memory or on disk) only while
\* the server is serving; and a client is constructed only once the
\* persisted wallet configuration is the rewired one.
C1_StageOrder ==
  [][/\ (\E p \in Paths \ {db_folder_path} : disk'[p] # disk[p] /\ Exists(disk', p))
          => LaunchComplete
     /\ (server.state = "none" /\ server'.state # "none")
          => \A p \in Artifacts : IsFile(disk, p)
     /\ (  \/ (WalletIsRpc(disk') /\ ~WalletIsRpc(disk))
           \/ (wallet_conf' # wallet_conf /\ IsSome(wallet_conf')
                 /\ Unwrap(wallet_conf').gateway.type = "RPC"))
          => server.state = "serving"
     /\ (http_client' # http_client \/ gateway_client' # gateway_client)
          => WalletIsRpc(disk)
    ]_vars

C1_Witness == ReturnedOk /\ IsRpc(entry) /\ IsSome(gateway_client)

(* -------------------------------- C2 ---------------------------------- *)

\* C2: in every state the persisted wallet configuration's gateway
\* reference is reachable: an Embedded one names a storage path that
\* exists on disk, an RPC one names the URL of a live server.
C2_GatewayReachable ==
  IsFile(disk, wallet_path) =>
    LET gw == PersistedWallet(disk).gateway IN
      /\ gw.type = "Embedded" => Exists(disk, Unwrap(gw.config).db_folder_path)
      /\ gw.type = "RPC" => (server.state = "serving" /\ Unwrap(gw.url) = BoundUrl)

(* -------------------------------- C3 ---------------------------------- *)

\* C3: when a bootstrap call has returned an error, no node of the swarm
\* is running, no RPC socket is listening, and nothing was handed back.
C3_FailedCallLeavesNothing ==
  ReturnedErr => (NoNodeRunning /\ ~Listening /\ returned = None)

C3_Witness == ReturnedErr /\ result.stage = "http_client" /\ SwarmTornDown

(* -------------------------------- C4 ---------------------------------- *)

\* C4: there is never a state in which the RPC listener is still live
\* while its backing swarm has already been torn down.
C4_NoListenerOverDeadSwarm == ~(Listening /\ SwarmTornDown)

(* -------------------------------- C5 ---------------------------------- *)

\* C5: a step that rewrites the persisted wallet configuration leaves its
\* accounts, active address and keystore reference as they were and sets
\* its gateway reference to RPC("http://" + the server's bound address).
C5_RewireFrame ==
  [][(IsFile(disk, wallet_path) /\ IsFile(disk', wallet_path)
        /\ disk'[wallet_path] # disk[wallet_path])
       => LET old == PersistedWallet(disk)
              new == PersistedWallet(disk')
          IN /\ new.gateway = RPC(BoundUrl)
             /\ new.accounts = old.accounts
             /\ new.active_address = old.active_address
             /\ new.keystore = old.keystore
    ]_vars

C5_Witness == WalletIsRpc(disk) /\ Len(PersistedWallet(disk).accounts) > 0

(* -------------------------------- C6 ---------------------------------- *)

\* C6: the swarm handed back has NUM_VALIDAOTR validators (the committee
\* size) and NUM_VALIDAOTR + fullnode_count nodes in all.
C6_SwarmSize ==
  ReturnedOk =>
    LET sw == Unwrap(returned).network IN
      /\ Cardinality(sw.validators) = NUM_VALIDAOTR
      /\ Cardinality(NodesOf(sw)) = NUM_VALIDAOTR + fullnode_count
      /\ sw.validators \cap sw.fullnodes = {}

C6_Witness ==
  ReturnedOk /\ entry = "start_test_network_with_fullnodes" /\ fullnode_count > 0

(* -------------------------------- C7 ---------------------------------- *)

\* C7: after a successful bootstrap the persisted keystore holds exactly
\* one entry per provisioned account key, each under the address derived
\* from that key's public key, and the wallet configuration's accounts are
\* exactly those addresses.
C7_KeystoreMatchesAccounts ==
  ReturnedOk =>
    LET keys == Unwrap(swarm).account_keys
        ks == ParseKeystore(disk[keystore_path].text)
        wallet == PersistedWallet(disk)
    IN /\ Cardinality(DOMAIN ks) = Len(keys)
       /\ \A i \in 1..Len(keys) :
            /\ AddressOf(Public(keys[i])) \in DOMAIN ks
            /\ ks[AddressOf(Public(keys[i]))] = keys[i]
       /\ \A a \in DOMAIN keystore.keys : a = AddressOf(Public(keystore.keys[a]))
       /\ DOMAIN keystore.keys = DOMAIN ks
       /\ Len(wallet.accounts) = Len(keys)
       /\ SeqToSet(wallet.accounts) = DOMAIN ks

C7_Witness == ReturnedOk /\ Len(Unwrap(swarm).account_keys) >= 2

(* -------------------------------- C8 ---------------------------------- *)

\* The stages of a call, in the order of the source.
SwarmStages ==
  <<"build", "launch", "save_network", "add_keys", "save_keystore",
    "save_gateway", "save_wallet">>

RpcStages ==
  <<"bind", "local_addr", "create_client", "RpcGatewayImpl",
    "GatewayReadApiImpl", "TransactionBuilderImpl", "GatewayWalletSyncApiImpl",
    "start", "read_wallet", "save_rewired", "http_client", "gateway_client">>

WalletStages == <<"wallet_context", "sync">>

StagesOf(e) ==
  IF IsRpc(e) THEN SwarmStages \o RpcStages
  ELSE IF IsWallet(e) THEN SwarmStages \o WalletStages
  ELSE SwarmStages

IsPrefix(s, t) == Len(s) <= Len(t) /\ \A i \in 1..Len(s) : s[i] = t[i]

\* C8: the stages run in order, each at most once; after a failure the
\* failing stage is the last one that ran and the caller gets its error;
\* a value is handed back only when every stage has run and succeeded.
C8_AllOrNothing ==
  /\ IsPrefix(log, StagesOf(entry))
  /\ \A i, j \in 1..Len(log) : i # j => log[i] # log[j]
  /\ result.tag = "Err" =>
       (log # <<>> /\ log[Len(log)] = result.stage /\ returned = None)
  /\ result = Ok => (log = StagesOf(entry) /\ IsSome(returned))
  /\ IsSome(returned) => result = Ok

C8_Witness == ReturnedErr /\ result.stage = "save_gateway" /\ Len(log) = 6

(* -------------------------------- C9 ---------------------------------- *)

Started(path) == Exists(disk, path) \/ Exists(disk, TmpOf(path))

\* C9: the artifacts are written in the order network config, keystore,
\* gateway config, wallet config; and whenever the wallet config is on
\* disk, its keystore path names the keystore file that was written and
\* every one of its addresses has an entry in that keystore.
C9_OrderedConsistentSnapshot ==
  /\ Started(keystore_path) => IsFile(disk, network_path)
  /\ Started(gateway_path) => IsFile(disk, keystore_path)
  /\ Started(wallet_path) => IsFile(disk, gateway_path)
  /\ IsFile(disk, wallet_path) =>
       LET wallet == PersistedWallet(disk) IN
         /\ wallet.keystore = KeystoreFile(keystore_path)
         /\ Some(wallet.keystore.path) = keystore.path
         /\ IsFile(disk, wallet.keystore.path)
         /\ SeqToSet(wallet.accounts)
              \subseteq DOMAIN ParseKeystore(disk[wallet.keystore.path].text)

C9_Witness ==
  /\ pc = "return_swarm"
  /\ IsFile(disk, wallet_path)
  /\ Len(PersistedWallet(disk).accounts) = MaxAccounts

(* -------------------------------- C10 --------------------------------- *)

\* C10: a reader of the working directory never finds a partially written
\* artifact: under each artifact's path there is nothing, or a complete
\* file (the old one while a rewrite is in progress, then the new one).
C10_NoTornArtifact ==
  /\ \A p \in Artifacts : disk[p].kind \in {"absent", "file"}
  /\ (pc = "save_rewired" /\ io = "writing") =>
       (IsFile(disk, wallet_path) /\ PersistedWallet(disk).gateway.type = "Embedded")

C10_Witness ==
  /\ pc = "save_rewired"
  /\ io = "writing"
  /\ disk[TmpOf(wallet_path)] = Torn
  /\ IsFile(disk, wallet_path)

(* -------------------------------- C11 --------------------------------- *)

PairListening(n) == nets[n].pc \in {"start", "rewire", "returned"}

\* The files a network's own call has written so far into its directory.
OwnFile(n, path) ==
  LET dir == nets[n].dir
      keys == nets[n].keys
      own == WalletIn(dir, AccountsOf(keys), ValidatorSetOf(n))
  IN CASE path = network_path ->
            File(TextOf("save_network", n, dir, keys))
       [] path = keystore_path ->
            File(TextOf("save_keystore", n, dir, keys))
       [] path = gateway_path ->
            File(TextOf("save_gateway", n, dir, keys))
       [] path = wallet_path ->
            IF nets[n].pc \in {"returned", "dropped"}
            THEN File(SerializeWallet(Rewire(own, FormatUrl(Unwrap(nets[n].addr)))))
            ELSE File(TextOf("save_wallet", n, dir, keys))
       [] OTHER -> Absent

\* C11: two networks started concurrently never interfere: their working
\* directories differ, no call fails for want of an address, each server
\* listens on a port of its own that the host assigned, and every file in
\* a network's directory is the keystore, wallet or gateway configuration
\* that network's own call wrote: its own keys, its own validators, its
\* own paths, its own server's url.
C11_NoInterference ==
  /\ \A n \in Nets :
       /\ nets[n].error # Some("address unavailable")
       /\ PairListening(n) =>
            /\ IsSome(nets[n].addr)
            /\ sockets[Unwrap(nets[n].addr).port] = n
       /\ nets[n].dir # NoDir =>
            \A path \in Paths :
              fs[nets[n].dir][path] \in {Absent, OwnFile(n, path)}
  /\ \A n, m \in Nets :
       n # m =>
         /\ nets[n].dir # NoDir => nets[n].dir # nets[m].dir
         /\ (PairListening(n) /\ PairListening(m)) => nets[n].addr # nets[m].addr

\* Both networks are up at once, each serving and rewired.
C11_Witness ==
  \A n \in Nets :
    /\ nets[n].pc = "returned"
    /\ WalletIsRpc(fs[nets[n].dir])

(* -------------------------------- C12 --------------------------------- *)

\* The storage directories of the swarm's own nodes, under the working
\* directory.
NodeStorageRoots == {"authorities_db", "consensus_db", "full_node_db"}

\* C12: when start_test_network_with_fullnodes returns Ok, the persisted
\* wallet configuration's gateway reference is Embedded and names a
\* storage path that exists on disk and is none of the nodes' own.
C12_EmbeddedStorageExists ==
  pc = "return_swarm" =>
    /\ IsFile(disk, wallet_path)
    /\ LET gw == PersistedWallet(disk).gateway IN
         /\ gw.type = "Embedded"
         /\ Unwrap(gw.config).db_folder_path \notin NodeStorageRoots
         /\ Exists(disk, Unwrap(gw.config).db_folder_path)

(* -------------------------------- C13 --------------------------------- *)

\* C13: the persisted wallet configuration's active address is the address
\* of the first account key of the swarm when there is one, and unset when
\* there is none.
C13_ActiveAddress ==
  IsFile(disk, wallet_path) =>
    LET keys == Unwrap(swarm).account_keys
        wallet == PersistedWallet(disk)
    IN IF Len(keys) = 0
       THEN wallet.active_address = None
       ELSE wallet.active_address = Some(AddressOf(Public(keys[1])))

\* A bootstrap without any account that has succeeded.
C13_Witness ==
  /\ ReturnedOk
  /\ Len(Unwrap(swarm).account_keys) = 0
  /\ PersistedWallet(disk).active_address = None

(* -------------------------------- C14 --------------------------------- *)

\* C14: all merged surfaces are backed by the one gateway instance that
\* create_client made, so whatever requests have been served, every
\* surface observes the same gateway state.
C14_SurfacesShareGateway ==
  /\ \A m \in module : m.client = Unwrap(client)
  /\ \A m1, m2 \in module :
       Observed(m1, gateway_state) = Observed(m2, gateway_state)

C14_Witness ==
  /\ server.state = "serving"
  /\ Cardinality(module) = 4
  /\ \E m \in module : Observed(m, gateway_state) = MaxCalls

(* -------------------------------- C15 --------------------------------- *)

Count(s, x) == Cardinality({i \in 1..Len(s) : s[i] = x})

\* C15: setup_network_and_wallet synchronizes at most once, only with a
\* wallet context built from the persisted wallet configuration, and for
\* that configuration's first account, which is the persisted active
\* address; a call that returns Ok has synchronized exactly once and
\* returns that address; a failed sync is not run again and nothing is
\* handed back; no other entry point synchronizes.
C15_SyncOnce ==
  /\ Len(syncs) <= 1
  /\ Count(log, "sync") <= 1
  /\ ~IsWallet(entry) => (syncs = <<>> /\ context = None)
  /\ (IsSome(context) /\ IsFile(disk, wallet_path)) =>
       Unwrap(context).config = PersistedWallet(disk)
  /\ syncs # <<>> =>
       /\ IsSome(context)
       /\ syncs[1] = Unwrap(context).config.accounts[1]
       /\ Some(syncs[1]) = Unwrap(context).config.active_address
       /\ Count(log, "wallet_context") = 1
  /\ (ReturnedOk /\ IsWallet(entry)) =>
       (Len(syncs) = 1 /\ Unwrap(returned).address = syncs[1])
  /\ (result = Err("sync")) =>
       (returned = None /\ syncs = <<>> /\ log[Len(log)] = "sync")

C15_Witness ==
  /\ ReturnedOk
  /\ IsWallet(entry)
  /\ Len(Unwrap(context).config.accounts) >= 2

(* -------------------------------- C16 --------------------------------- *)

\* C16: the persisted wallet configuration is first written with an
\* Embedded gateway reference; the only later change of the file is from
\* Embedded to RPC, made by the RPC entry points; once it is RPC it is
\* never written as Embedded again.
C16_OneWayRewire ==
  [][/\ (~IsFile(disk, wallet_path) /\ IsFile(disk', wallet_path))
          => PersistedWallet(disk').gateway.type = "Embedded"
     /\ (IsFile(disk, wallet_path) /\ IsFile(disk', wallet_path)
           /\ disk'[wallet_path] # disk[wallet_path])
          => /\ IsRpc(entry)
             /\ PersistedWallet(disk).gateway.type = "Embedded"
             /\ PersistedWallet(disk').gateway.type = "RPC"
     /\ (WalletIsRpc(disk) /\ IsFile(disk', wallet_path)) => WalletIsRpc(disk')
    ]_vars

C16_Witness == pc = "dropped" /\ WalletIsRpc(disk)

(* -------------------------------- C17 --------------------------------- *)

\* C17: the gateway-config artifact and the Embedded gateway configuration
\* inside the wallet configuration are equal: both carry the swarm's
\* validator set and the storage path client_db of the working directory.
C17_GatewayConfigsAgree ==
  (IsFile(disk, gateway_path) /\ IsFile(disk, wallet_path)
     /\ PersistedWallet(disk).gateway.type = "Embedded") =>
    LET standalone == ParseGateway(disk[gateway_path].text)
        embedded == Unwrap(PersistedWallet(disk).gateway.config)
    IN /\ standalone = embedded
       /\ standalone.validator_set = Unwrap(swarm).validator_set
       /\ Len(standalone.validator_set) = NUM_VALIDAOTR
       /\ standalone.db_folder_path = "client_db"

C17_Witness ==
  /\ pc = "bind"
  /\ IsFile(disk, gateway_path)
  /\ PersistedWallet(disk).gateway.type = "Embedded"

(* -------------------------------- C18 --------------------------------- *)

\* C18: a returned TestNetwork agrees with the persisted state: its
\* rpc_url is the URL of the persisted wallet configuration's RPC gateway
\* reference and of the server's bound address, both clients target that
\* URL, and its accounts are the persisted wallet configuration's.
C18_HandleAgrees ==
  (ReturnedOk /\ IsRpc(entry)) =>
    LET handle == Unwrap(returned)
        wallet == PersistedWallet(disk)
    IN /\ server.state = "serving"
       /\ handle.rpc_url = BoundUrl
       /\ wallet.gateway = RPC(handle.rpc_url)
       /\ handle.http_client.target = handle.rpc_url
       /\ handle.gateway_client.target = handle.rpc_url
       /\ handle.accounts = wallet.accounts
       /\ handle._rpc_server = server.local_addr

C18_Witness ==
  /\ ReturnedOk
  /\ IsRpc(entry)
  /\ Unwrap(returned).rpc_url.port = NumPorts
  /\ Len(Unwrap(returned).accounts) > 0

(* -------------------------------- C19 --------------------------------- *)

\* C19: the server serves only with the gateway client created and all
\* four surfaces merged; and when client creation or a merge fails, the
\* server is never started and its socket is released by the time the
\* call returns.
C19_ServeOnlyComplete ==
  /\ server.state = "serving" =>
       /\ IsSome(client)
       /\ {m.api : m \in module} =
            {"RpcGatewayImpl", "GatewayReadApiImpl", "TransactionBuilderImpl",
             "GatewayWalletSyncApiImpl"}
       /\ Count(log, "start") = 1
  /\ (result.tag = "Err"
        /\ result.stage \in {"create_client", "RpcGatewayImpl", "GatewayReadApiImpl",
                             "TransactionBuilderImpl", "GatewayWalletSyncApiImpl"}) =>
       /\ Count(log, "start") = 0
       /\ server.state \in {"bound", "released"}
       /\ pc = "returned" => server.state = "released"

C19_Witness ==
  /\ ReturnedErr
  /\ result.stage = "TransactionBuilderImpl"
  /\ server.state = "released"
====
